---- MODULE Spec2Model ----
(***************************************************************************)
(* Collections page (src/components/pages/Collections.tsx): derivation of  *)
(* the collection obligations from orders/customers/users, the filtered    *)
(* view, and the recognition flow that writes to the backing store and to  *)
(* the browser's local storage; and the generic export function           *)
(* exportData (src/unnamed/part_000).                                      *)
(*                                                                         *)
(* Text is modelled as a sequence of words: String.includes(token) is      *)
(* membership of the token among the words.  Date.getTime() is counted in  *)
(* days instead of milliseconds.                                           *)
(***************************************************************************)
EXTENDS Integers, Sequences, FiniteSets, TLC

\* ------------------------------------------------------------------ bounds
MaxOrders == 2
MaxFlows == 2
MaxViewOrders == 4
MaxSoloOrders == 1
MaxSoloFlows == 1
MaxExports == 2
MaxExportRows == 2

\* --------------------------------------------------------------- constants
Marker == "COLLECTION_COMPLETED"
Today == "2024-03-01"
Tomorrow == "2024-03-02"
JSUndefined == "undefined"

\* The users table of the backing store (never written by this page).
DbUsers ==
  << [id |-> "u1", name |-> "Uma", email |-> "uma@x", role |-> "Sales"],
     [id |-> "u2", name |-> "Adi", email |-> "adi@x", role |-> "Admin"] >>

\* ------------------------------------------------------------ JS helpers
Range(s) == {s[i] : i \in 1..Len(s)}

\* Array.prototype.find by a key: index of the first match, 0 when none.
FindById(seq, id) ==
  IF \E i \in 1..Len(seq) : seq[i].id = id
  THEN CHOOSE i \in 1..Len(seq) :
         seq[i].id = id /\ \A j \in 1..(i - 1) : seq[j].id # id
  ELSE 0

FindByEmail(seq, email) ==
  IF \E i \in 1..Len(seq) : seq[i].email = email
  THEN CHOOSE i \in 1..Len(seq) :
         seq[i].email = email /\ \A j \in 1..(i - 1) : seq[j].email # email
  ELSE 0

\* String.prototype.includes on a text held as words.
Includes(words, token) == \E i \in 1..Len(words) : words[i] = token

\* String.prototype.toUpperCase on the two collection types.
ToUpperCase(t) == IF t = "credit" THEN "CREDIT" ELSE "CHEQUE"

\* amount.toLocaleString('en-IN', ...) prefixed by the currency; the amounts
\* of the model stay below 1000, where no digit grouping is inserted.
formatCurrency(amount) == <<"LKR", ToString(amount)>>

\* new Date(s).getTime(), in days since 2024-01-01.
DateTime(s) ==
  CASE s = "2024-01-05" -> 4
    [] s = "2024-02-10" -> 40
    [] s = "2024-03-01" -> 60
    [] s = "2024-03-02" -> 61
    [] OTHER -> 0

\* `${order.id}-credit` / `${order.id}-cheque`
CollectionId(orderId, type) == orderId \o "-" \o type

\* ----------------------------------------------------------- derivation
\* c.id for an entry c of the cached list: the entries are the strings that
\* recognition pushed, and a string has no property `id`.
CachedEntryId(c) == JSUndefined

\* localStorage holds the key 'completedCollections' or not; a held value is
\* the JSON text of a list, kept here as the list it denotes.
NoItem == [present |-> FALSE, json |-> <<>>]

\* JSON.stringify(list), stored by setItem
Stringify(list) == [present |-> TRUE, json |-> list]

\* JSON.parse(localStorage.getItem('completedCollections') || '[]')
ParseCache(item) == IF item.present THEN item.json ELSE <<>>

completedIds(item) == {CachedEntryId(ParseCache(item)[i]) : i \in 1..Len(ParseCache(item))}

\* order.notes && order.notes.includes('COLLECTION_COMPLETED')
isCollectionCompleted(order) == order.notes # <<>> /\ Includes(order.notes, Marker)

\* One pushed CollectionRecord (lines 89-100 and 108-119).
MakeRecord(order, type, amount, customer, collectedBy, item, now) ==
  LET collectionId == CollectionId(order.id, type)
      isCompleted == collectionId \in completedIds(item) \/ isCollectionCompleted(order)
  IN [ id |-> collectionId,
       orderId |-> order.id,
       customerId |-> order.customerId,
       customerName |-> IF order.customerName # "" THEN order.customerName ELSE customer.name,
       collectionType |-> type,
       amount |-> amount,
       collectedBy |-> collectedBy.name,
       collectedAt |-> IF order.date # "" THEN order.date ELSE now,
       status |-> IF isCompleted THEN "complete" ELSE "pending",
       notes |-> IF isCompleted THEN <<"Previously", "completed">> ELSE <<>> ]

\* RecordsOfOrder with the cheque test chained to the credit test by `else if`.
RecordsOfOrder_elseIf(order, custs, usrs, user, item, now) ==
  LET ci == FindById(custs, order.customerId)
      ui == FindById(usrs, order.assignedUserId)
      fi == FindByEmail(usrs, user.email)
      bi == IF ui # 0 THEN ui ELSE fi
  IN IF ci = 0 THEN <<>>
     ELSE IF bi = 0 THEN <<>>
     ELSE IF order.creditBalance # 0 /\ order.creditBalance > 0
          THEN <<MakeRecord(order, "credit", order.creditBalance, custs[ci], usrs[bi], item, now)>>
          ELSE IF order.chequeBalance # 0 /\ order.chequeBalance > 0
               THEN <<MakeRecord(order, "cheque", order.chequeBalance, custs[ci], usrs[bi], item, now)>>
               ELSE <<>>

\* The body of orders.forEach for one order: the records it pushes.
RecordsOfOrder(order, custs, usrs, user, item, now) ==
  LET ci == FindById(custs, order.customerId)
      ui == FindById(usrs, order.assignedUserId)
      fi == FindByEmail(usrs, user.email)
      bi == IF ui # 0 THEN ui ELSE fi
  IN IF ci = 0 THEN <<>>
     ELSE IF bi = 0 THEN <<>>
     ELSE (IF order.creditBalance # 0 /\ order.creditBalance > 0
           THEN <<MakeRecord(order, "credit", order.creditBalance, custs[ci], usrs[bi], item, now)>>
           ELSE <<>>)
          \o
          (IF order.chequeBalance # 0 /\ order.chequeBalance > 0
           THEN <<MakeRecord(order, "cheque", order.chequeBalance, custs[ci], usrs[bi], item, now)>>
           ELSE <<>>)

RECURSIVE DeriveFrom(_, _, _, _, _, _, _)
DeriveFrom(k, ords, custs, usrs, user, item, now) ==
  IF k > Len(ords) THEN <<>>
  ELSE RecordsOfOrder(ords[k], custs, usrs, user, item, now)
       \o DeriveFrom(k + 1, ords, custs, usrs, user, item, now)

\* The derivation effect: the list handed to setCollections.
DeriveRecords(ords, custs, usrs, user, item, now) ==
  DeriveFrom(1, ords, custs, usrs, user, item, now)

\* ------------------------------------------------------- filtered view
\* InsertDesc with the comparator's operands swapped: time(a) - time(b).
RECURSIVE InsertDesc_asc(_, _)
InsertDesc_asc(sorted, r) ==
  IF sorted = <<>> THEN <<r>>
  ELSE IF DateTime(Head(sorted).collectedAt) - DateTime(r.collectedAt) > 0
       THEN <<r>> \o sorted
       ELSE <<Head(sorted)>> \o InsertDesc_asc(Tail(sorted), r)

\* Array.prototype.sort with (a, b) => time(b) - time(a): stable, descending.
RECURSIVE InsertDesc(_, _)
InsertDesc(sorted, r) ==
  IF sorted = <<>> THEN <<r>>
  ELSE IF DateTime(r.collectedAt) - DateTime(Head(sorted).collectedAt) > 0
       THEN <<r>> \o sorted
       ELSE <<Head(sorted)>> \o InsertDesc(Tail(sorted), r)

RECURSIVE SortByDateDesc(_)
SortByDateDesc(seq) ==
  IF seq = <<>> THEN <<>>
  ELSE InsertDesc(SortByDateDesc(SubSeq(seq, 1, Len(seq) - 1)), seq[Len(seq)])

FilterStatus(seq, sf) == IF sf # "all" THEN SelectSeq(seq, LAMBDA c : c.status = sf) ELSE seq

FilterType(seq, tf) == IF tf # "all" THEN SelectSeq(seq, LAMBDA c : c.collectionType = tf) ELSE seq

\* The value of the filteredCollections memo.
FilteredOf(colls, sf, tf) == SortByDateDesc(FilterType(FilterStatus(colls, sf), tf))

\* Array.prototype.sort sorts in place: with both filters 'all' the array
\* sorted is the state array itself; a filter() call yields a fresh array.
CollectionsAfterMemo(colls, sf, tf) ==
  IF sf = "all" /\ tf = "all" THEN SortByDateDesc(colls) ELSE colls

\* ------------------------------------------------------- recognition
\* updatedOrderData.notes (line 171)
UpdatedNotes(sel, user, vnotes) ==
  <<ToUpperCase(sel.collectionType), "collection", "of">>
  \o formatCurrency(sel.amount)
  \o <<"completed", "by", user.name>>
  \o (IF vnotes # <<>> THEN <<"Notes:">> \o vnotes ELSE <<>>)

\* UpdateOrders with the two balance columns exchanged.
UpdateOrders_otherColumn(rows, sel, user, vnotes) ==
  [i \in 1..Len(rows) |->
     IF rows[i].id = sel.orderId
     THEN IF sel.collectionType = "credit"
          THEN [rows[i] EXCEPT !.notes = UpdatedNotes(sel, user, vnotes), !.chequeBalance = 0]
          ELSE [rows[i] EXCEPT !.notes = UpdatedNotes(sel, user, vnotes), !.creditBalance = 0]
     ELSE rows[i]]

\* supabase.from('orders').update(updatedOrderData).eq('id', orderId)
UpdateOrders(rows, sel, user, vnotes) ==
  [i \in 1..Len(rows) |->
     IF rows[i].id = sel.orderId
     THEN IF sel.collectionType = "credit"
          THEN [rows[i] EXCEPT !.notes = UpdatedNotes(sel, user, vnotes), !.creditBalance = 0]
          ELSE [rows[i] EXCEPT !.notes = UpdatedNotes(sel, user, vnotes), !.chequeBalance = 0]
     ELSE rows[i]]

\* Math.max(0, (customer.outstandingBalance || 0) - amount)
newOutstandingBalance(customer, amount) ==
  IF customer.outstandingBalance - amount > 0 THEN customer.outstandingBalance - amount ELSE 0

\* supabase.from('customers').update({outstandingbalance}).eq('id', customerId)
UpdateCustomers(rows, customerId, balance) ==
  [i \in 1..Len(rows) |->
     IF rows[i].id = customerId THEN [rows[i] EXCEPT !.outstandingBalance = balance] ELSE rows[i]]

\* CacheAppend without the includes test: the id is pushed every time.
CacheAppend_always(item, id) == Stringify(Append(ParseCache(item), id))

\* Lines 200-204: append the id to the cached list unless it is there.
CacheAppend(item, id) ==
  IF ~ Includes(ParseCache(item), id) THEN Stringify(Append(ParseCache(item), id)) ELSE item

\* FlipComplete matching the record by c.orderId instead of c.id.
FlipComplete_byOrderId(prev, id, vnotes) ==
  [i \in 1..Len(prev) |->
     IF prev[i].orderId = id THEN [prev[i] EXCEPT !.status = "complete", !.notes = vnotes] ELSE prev[i]]

\* Lines 207-213: the functional update handed to setCollections.
FlipComplete(prev, id, vnotes) ==
  [i \in 1..Len(prev) |->
     IF prev[i].id = id THEN [prev[i] EXCEPT !.status = "complete", !.notes = vnotes] ELSE prev[i]]

\* ------------------------------------------------------------ exportData
NoDataNotice == "No data to export"
ExportFailedNotice == "Export failed. Please try again."

\* The argument `data`: absent (null or undefined) or an array of rows.
AbsentData == [present |-> FALSE, rows |-> <<>>]

DataOf(rows) == [present |-> TRUE, rows |-> rows]

\* Line 13 with the length test left out: !data
isEmptyInput_absentOnly(data) == ~ data.present

\* Line 13: !data || data.length === 0
isEmptyInput(data) == ~ data.present \/ Len(data.rows) = 0

\* Object.keys(data[0]) throws a TypeError on a row that is null.
ObjectKeysThrows(data) == Len(data.rows) > 0 /\ data.rows[1].isNull

\* Lines 23-29: the columns of the worksheet.
ColumnsOf(data) == IF Len(data.rows) > 0 THEN data.rows[1].keys ELSE <<>>

\* Lines 34-46: the file handed to saveAs.
FileOf(data, filename, format) ==
  IF format = "csv"
  THEN [name |-> filename \o ".csv", type |-> "text/csv;charset=utf-8",
        columns |-> ColumnsOf(data), rows |-> Len(data.rows)]
  ELSE [name |-> filename \o ".xlsx",
        type |-> "application/vnd.openxmlformats-officedocument.spreadsheetml.sheet",
        columns |-> ColumnsOf(data), rows |-> Len(data.rows)]

\* console.error("Export failed:", error), with the origin of the error.
ErrorLine(error) == <<"Export failed:", error>>

\* One call of exportData: where it stands, its arguments, and what it has
\* handed to saveAs, alert, console.log and console.error.
IdleExport ==
  [ pc |-> "idle", data |-> AbsentData, filename |-> "", format |-> "xlsx",
    saved |-> <<>>, alerts |-> <<>>, logs |-> <<>>, errors |-> <<>> ]

\* Lines 13-16 and 18-36/41, 49-52: the call up to its return or first await.
\* libraryThrows: the workbook calls of lines 19-32 raise an exception.
exportDataCall(data, filename, format, libraryThrows) ==
  IF isEmptyInput(data)
  THEN [IdleExport EXCEPT !.pc = "done", !.data = data, !.filename = filename, !.format = format,
                          !.alerts = <<NoDataNotice>>]
  ELSE IF ObjectKeysThrows(data) \/ libraryThrows
       THEN [IdleExport EXCEPT !.pc = "done", !.data = data, !.filename = filename, !.format = format,
                               !.errors = <<ErrorLine(IF libraryThrows THEN "workbook" ELSE "TypeError")>>,
                               !.alerts = <<ExportFailedNotice>>]
       ELSE [IdleExport EXCEPT !.pc = "awaitBuffer", !.data = data, !.filename = filename,
                               !.format = format]

\* --------------------------------------------------------------- state
VARIABLES
  dbOrders,            \* backing store: table orders
  dbCustomers,         \* backing store: table customers
  localStorage,        \* the item 'completedCollections'
  orders,              \* useData(): orders
  customers,           \* useData(): customers
  users,               \* useData(): users
  currentUser,         \* useAuth(): currentUser
  today,               \* new Date().toISOString().slice(0, 10)
  records,             \* the array the derivation effect last built
  collections,         \* useState: collections
  statusFilter,        \* useState: statusFilter
  typeFilter,          \* useState: typeFilter
  selectedCollection,  \* useState: selectedCollection (<<>> is null)
  verificationNotes,   \* useState: verificationNotes
  filteredCollections, \* useMemo: filteredCollections
  mounted,             \* the mount effects have run
  mountRefetch,        \* the refetchData() of the mount effect is in flight
  flows,               \* the invocations of handleRecognizeCollection
  cacheRead,           \* localStorage.getItem has been called
  exports              \* the calls of exportData

vars ==
  << dbOrders, dbCustomers, localStorage, orders, customers, users, currentUser,
     today, records, collections, statusFilter, typeFilter, selectedCollection, verificationNotes,
     filteredCollections, mounted, mountRefetch, flows, cacheRead, exports >>

\* ------------------------------------------------------- initial data
\* Rows an order table is drawn from; the row at position k gets the id "o<k>".
OrderProfiles ==
  { [customerId |-> "c1", customerName |-> "Acme Ltd", assignedUserId |-> "u1",
     creditBalance |-> 100, chequeBalance |-> 0, notes |-> <<>>, date |-> "2024-01-05"],
    [customerId |-> "c1", customerName |-> "", assignedUserId |-> "u1",
     creditBalance |-> 100, chequeBalance |-> 80, notes |-> <<>>, date |-> "2024-02-10"],
    [customerId |-> "c1", customerName |-> "", assignedUserId |-> "u1",
     creditBalance |-> 100, chequeBalance |-> 80, notes |-> <<Marker>>, date |-> ""],
    [customerId |-> "c9", customerName |-> "Ghost", assignedUserId |-> "u1",
     creditBalance |-> 100, chequeBalance |-> 80, notes |-> <<>>, date |-> "2024-01-05"],
    [customerId |-> "c1", customerName |-> "", assignedUserId |-> "u9",
     creditBalance |-> -20, chequeBalance |-> 80, notes |-> <<"call", "first">>, date |-> "2024-02-10"] }

OrderRow(k, p) ==
  [ id |-> "o" \o ToString(k), customerId |-> p.customerId, customerName |-> p.customerName,
    assignedUserId |-> p.assignedUserId, creditBalance |-> p.creditBalance,
    chequeBalance |-> p.chequeBalance, notes |-> p.notes, date |-> p.date ]

\* The order tables of up to `most` rows.
OrderTables(most) ==
  UNION { { [k \in 1..n |-> OrderRow(k, ps[k])] : ps \in [1..n -> OrderProfiles] } : n \in 1..most }

LoadedCustomers == << [id |-> "c1", name |-> "Acme", outstandingBalance |-> 90] >>

\* The signed-in user and what an earlier session of the browser left in
\* localStorage.  Adi is a row of users, Mia and Sam are not.
Sessions ==
  { [user |-> [name |-> "Adi", email |-> "adi@x", role |-> "Admin"],
     item |-> Stringify(<<"o1-credit">>)],
    [user |-> [name |-> "Mia", email |-> "mia@x", role |-> "Manager"],
     item |-> NoItem],
    [user |-> [name |-> "Sam", email |-> "sam@x", role |-> "Sales"],
     item |-> Stringify(<<"o1-credit">>)] }

\* The store at construction, with the context values the application loaded
\* from it at start: the store itself, or, for a one-order table, a store whose
\* customers were removed since.
Worlds(most) ==
  { [dbOrders |-> t, dbCustomers |-> LoadedCustomers] : t \in OrderTables(most) }
  \cup { [dbOrders |-> t, dbCustomers |-> <<>>] : t \in { u \in OrderTables(most) : Len(u) = 1 } }

\* What the user types into the verification notes.
NoteTexts == { <<>>, <<Marker>> }

IdleFlow ==
  [ pc |-> "idle", sel |-> <<>>, notes |-> <<>>, customers |-> <<>>,
    balance |-> 0, orderError |-> FALSE, customerError |-> FALSE, notice |-> "none" ]

\* The order tables the filtered view is exercised on: longer, with an order
\* whose only record is complete.
ViewProfiles ==
  { [customerId |-> "c1", customerName |-> "Acme Ltd", assignedUserId |-> "u1",
     creditBalance |-> 100, chequeBalance |-> 0, notes |-> <<>>, date |-> "2024-01-05"],
    [customerId |-> "c1", customerName |-> "", assignedUserId |-> "u1",
     creditBalance |-> 100, chequeBalance |-> 80, notes |-> <<>>, date |-> "2024-02-10"],
    [customerId |-> "c1", customerName |-> "", assignedUserId |-> "u1",
     creditBalance |-> 0, chequeBalance |-> 80, notes |-> <<"ok", Marker>>, date |-> ""],
    [customerId |-> "c9", customerName |-> "Ghost", assignedUserId |-> "u1",
     creditBalance |-> 100, chequeBalance |-> 80, notes |-> <<>>, date |-> "2024-01-05"],
    [customerId |-> "c1", customerName |-> "", assignedUserId |-> "u9",
     creditBalance |-> -20, chequeBalance |-> 80, notes |-> <<"call", "first">>, date |-> "2024-02-10"] }

ViewTables ==
  UNION { { [k \in 1..n |-> OrderRow(k, ps[k])] : ps \in [1..n -> ViewProfiles] } : n \in 1..MaxViewOrders }

ViewWorlds == { [dbOrders |-> t, dbCustomers |-> LoadedCustomers] : t \in ViewTables }

\* The state after construction (lines 28-34), on a store of `worlds`, with
\* room for `clicks` invocations of handleRecognizeCollection.
InitOn(worlds, clicks) ==
  /\ \E w \in worlds :
       /\ dbOrders = w.dbOrders
       /\ dbCustomers = w.dbCustomers
       /\ orders = w.dbOrders
  /\ \E s \in Sessions :
       /\ currentUser = s.user
       /\ localStorage = s.item
  /\ customers = LoadedCustomers
  /\ users = DbUsers
  /\ today = Today
  /\ records = <<>>
  /\ collections = <<>>
  /\ statusFilter = "all"
  /\ typeFilter = "all"
  /\ selectedCollection = <<>>
  /\ verificationNotes = <<>>
  /\ filteredCollections = <<>>
  /\ mounted = FALSE
  /\ mountRefetch = FALSE
  /\ flows = [f \in 1..clicks |-> IdleFlow]
  /\ cacheRead = FALSE

\* The Collections page calls no export.
NoExports == <<>>

Init == InitOn(Worlds(MaxOrders), MaxFlows) /\ exports = NoExports

InitSolo == InitOn(Worlds(MaxSoloOrders), MaxSoloFlows) /\ exports = NoExports

InitView == InitOn(ViewWorlds, MaxFlows) /\ exports = NoExports

\* currentUser?.role === Admin || currentUser?.role === Manager
isAdminManager == currentUser.role = "Admin" \/ currentUser.role = "Manager"

\* refetchData() of the data context: the context values after the reload.
refetchData(rows) == rows

\* A render after collections or a filter changed: the memo recomputes and
\* its sort may reorder the state array.
Rendered(colls, sf, tf) ==
  /\ collections' = CollectionsAfterMemo(colls, sf, tf)
  /\ filteredCollections' = FilteredOf(colls, sf, tf)

\* Derivation pushing onto the list held instead of a fresh array.
Derivation_merge(ords, custs, usrs) ==
  /\ cacheRead' = TRUE
  /\ records' = collections \o DeriveRecords(ords, custs, usrs, currentUser, localStorage, today)
  /\ Rendered(records', statusFilter, typeFilter)

\* Lines 47-136: the derivation effect, run on the context values given.
Derivation(ords, custs, usrs) ==
  /\ cacheRead' = TRUE
  /\ records' = DeriveRecords(ords, custs, usrs, currentUser, localStorage, today)
  /\ Rendered(records', statusFilter, typeFilter)

\* ------------------------------------------------------------- actions
\* First commit of the component: the mount effect calls refetchData() and
\* the derivation effect runs on the context values at hand.
Mount ==
  /\ ~ mounted
  /\ mounted' = TRUE
  /\ mountRefetch' = TRUE
  /\ Derivation(orders, customers, users)
  /\ UNCHANGED << exports, today, dbOrders, dbCustomers, localStorage, orders, customers, users, currentUser,
                  statusFilter, typeFilter, selectedCollection, verificationNotes, flows >>

\* The reload started at mount resolves: new context values, so the
\* derivation effect runs again.
MountRefetchReturns ==
  /\ mountRefetch
  /\ mountRefetch' = FALSE
  /\ orders' = refetchData(dbOrders)
  /\ customers' = refetchData(dbCustomers)
  /\ users' = refetchData(DbUsers)
  /\ Derivation(orders', customers', users')
  /\ UNCHANGED << exports, today, dbOrders, dbCustomers, localStorage, currentUser, statusFilter, typeFilter,
                  selectedCollection, verificationNotes, mounted, flows >>

\* The page below line 237 is rendered only for the two privileged roles.
PageShown == mounted /\ isAdminManager

SetStatusFilter(f) ==
  /\ PageShown
  /\ selectedCollection = <<>>
  /\ f # statusFilter
  /\ statusFilter' = f
  /\ Rendered(collections, f, typeFilter)
  /\ UNCHANGED << exports, today, records, dbOrders, dbCustomers, localStorage, orders, customers, users, currentUser,
                  typeFilter, selectedCollection, verificationNotes, mounted, mountRefetch,
                  flows, cacheRead >>

SetTypeFilter(f) ==
  /\ PageShown
  /\ selectedCollection = <<>>
  /\ f # typeFilter
  /\ typeFilter' = f
  /\ Rendered(collections, statusFilter, f)
  /\ UNCHANGED << exports, today, records, dbOrders, dbCustomers, localStorage, orders, customers, users, currentUser,
                  statusFilter, selectedCollection, verificationNotes, mounted, mountRefetch,
                  flows, cacheRead >>

\* "Verify & Recognize" on a row of the table: shown for pending rows only.
SelectCollection(i) ==
  /\ PageShown
  /\ selectedCollection = <<>>
  /\ i \in 1..Len(filteredCollections)
  /\ filteredCollections[i].status = "pending"
  /\ selectedCollection' = << filteredCollections[i] >>
  /\ UNCHANGED << exports, today, records, dbOrders, dbCustomers, localStorage, orders, customers, users, currentUser,
                  collections, statusFilter, typeFilter, verificationNotes, filteredCollections,
                  mounted, mountRefetch, flows, cacheRead >>

\* Modal onClose / Cancel
CloseModal ==
  /\ PageShown
  /\ selectedCollection # <<>>
  /\ selectedCollection' = <<>>
  /\ verificationNotes' = <<>>
  /\ UNCHANGED << exports, today, records, dbOrders, dbCustomers, localStorage, orders, customers, users, currentUser,
                  collections, statusFilter, typeFilter, filteredCollections, mounted,
                  mountRefetch, flows, cacheRead >>

\* The textarea of the modal
SetVerificationNotes(v) ==
  /\ PageShown
  /\ selectedCollection # <<>>
  /\ v # verificationNotes
  /\ verificationNotes' = v
  /\ UNCHANGED << exports, today, records, dbOrders, dbCustomers, localStorage, orders, customers, users, currentUser,
                  collections, statusFilter, typeFilter, selectedCollection, filteredCollections,
                  mounted, mountRefetch, flows, cacheRead >>

\* ----------------------------------------------- handleRecognizeCollection
\* Click on "Recognize Collection": the handler of the current render runs
\* up to its first await, the orders update (lines 165-185).
HandleRecognize(f) ==
  /\ PageShown
  /\ selectedCollection # <<>>
  /\ flows[f].pc = "idle"
  /\ \A g \in 1..(f - 1) : flows[g].pc # "idle"
  /\ flows' = [flows EXCEPT ![f] =
                 [IdleFlow EXCEPT !.pc = "awaitOrder", !.sel = selectedCollection,
                                  !.notes = verificationNotes, !.customers = customers]]
  /\ UNCHANGED << exports, today, records, dbOrders, dbCustomers, localStorage, orders, customers, users, currentUser,
                  collections, statusFilter, typeFilter, selectedCollection, verificationNotes,
                  filteredCollections, mounted, mountRefetch, cacheRead >>

\* Lines 199-216: cache append, in-memory flip, refetchData() called.
AppendFlipAndReload(f) ==
  LET sel == flows[f].sel[1]
  IN /\ localStorage' = CacheAppend(localStorage, sel.id)
     /\ cacheRead' = TRUE
     /\ Rendered(FlipComplete(collections, sel.id, flows[f].notes), statusFilter, typeFilter)

\* The orders update resolves with an error: throw, catch, failure notice
\* (lines 187, 222-225).
OrderUpdateFails(f) ==
  /\ flows[f].pc = "awaitOrder"
  /\ flows' = [flows EXCEPT ![f].pc = "failed", ![f].orderError = TRUE, ![f].notice = "failure"]
  /\ UNCHANGED << exports, today, records, dbOrders, dbCustomers, localStorage, orders, customers, users, currentUser,
                  collections, statusFilter, typeFilter, selectedCollection, verificationNotes,
                  filteredCollections, mounted, mountRefetch, cacheRead >>

\* The orders update resolves without error; the handler runs on to its next
\* await: the customers update when the customer resolves (lines 190-196),
\* else the reload (line 216).
OrderUpdateSucceeds(f) ==
  /\ flows[f].pc = "awaitOrder"
  /\ dbOrders' = UpdateOrders(dbOrders, flows[f].sel[1], currentUser, flows[f].notes)
  /\ LET sel == flows[f].sel[1]
         ci == FindById(flows[f].customers, sel.customerId)
     IN IF ci # 0
        THEN /\ flows' = [flows EXCEPT ![f].pc = "awaitCustomer",
                            ![f].balance = newOutstandingBalance(flows[f].customers[ci], sel.amount)]
             /\ UNCHANGED << localStorage, collections, filteredCollections, cacheRead >>
        ELSE /\ flows' = [flows EXCEPT ![f].pc = "awaitReload"]
             /\ AppendFlipAndReload(f)
  /\ UNCHANGED << exports, today, records, dbCustomers, orders, customers, users, currentUser, statusFilter, typeFilter,
                  selectedCollection, verificationNotes, mounted, mountRefetch >>

\* The customers update resolves; its result is not looked at (lines 193-196).
CustomerUpdateReturns(f, error) ==
  /\ flows[f].pc = "awaitCustomer"
  /\ dbCustomers' = IF error THEN dbCustomers
                    ELSE UpdateCustomers(dbCustomers, flows[f].sel[1].customerId, flows[f].balance)
  /\ flows' = [flows EXCEPT ![f].pc = "awaitReload", ![f].customerError = error]
  /\ AppendFlipAndReload(f)
  /\ UNCHANGED << exports, today, records, dbOrders, orders, customers, users, currentUser, statusFilter, typeFilter,
                  selectedCollection, verificationNotes, mounted, mountRefetch >>

\* The reload resolves: new context values, the derivation effect runs, then
\* the success notice and the modal is cleared (lines 216-221).
ReloadReturns(f) ==
  /\ flows[f].pc = "awaitReload"
  /\ orders' = refetchData(dbOrders)
  /\ customers' = refetchData(dbCustomers)
  /\ users' = refetchData(DbUsers)
  /\ Derivation(orders', customers', users')
  /\ flows' = [flows EXCEPT ![f].pc = "done", ![f].notice = "success"]
  /\ selectedCollection' = <<>>
  /\ verificationNotes' = <<>>
  /\ UNCHANGED << exports, today, dbOrders, dbCustomers, localStorage, currentUser, statusFilter, typeFilter,
                  mounted, mountRefetch >>

\* Midnight (UTC) passes: new Date() yields the next day from here on.
DayPasses ==
  /\ today = Today
  /\ today' = Tomorrow
  /\ UNCHANGED << exports, dbOrders, dbCustomers, localStorage, orders, customers, users, currentUser,
                  records, collections, statusFilter, typeFilter, selectedCollection,
                  verificationNotes, filteredCollections, mounted, mountRefetch, flows, cacheRead >>

Filters == {"all", "pending", "complete"}
TypeFilters == {"all", "credit", "cheque"}

Next ==
  \/ Mount
  \/ MountRefetchReturns
  \/ \E i \in 1..Len(filteredCollections) : SelectCollection(i)
  \/ CloseModal
  \/ \E v \in NoteTexts : SetVerificationNotes(v)
  \/ \E f \in DOMAIN flows : HandleRecognize(f)
  \/ \E f \in DOMAIN flows : OrderUpdateFails(f)
  \/ \E f \in DOMAIN flows : OrderUpdateSucceeds(f)
  \/ \E f \in DOMAIN flows, error \in BOOLEAN : CustomerUpdateReturns(f, error)
  \/ \E f \in DOMAIN flows : ReloadReturns(f)

\* The page with the filters left at 'all': mount, selection and recognition,
\* with invocations of the handler that overlap.
Spec == Init /\ [][Next]_vars

\* The same page on the smaller stores and with fewer invocations.
SpecSolo == InitSolo /\ [][Next]_vars

NextView ==
  \/ Mount
  \/ MountRefetchReturns
  \/ \E f \in Filters : SetStatusFilter(f)
  \/ \E f \in TypeFilters : SetTypeFilter(f)
  \/ DayPasses

\* The page with its filters, on longer order tables and over a change of
\* day, with the modal left closed.
SpecView == InitView /\ [][NextView]_vars

\* ------------------------------------------------------------ exportData
\* The rows handed to exportData: an object with two keys, or null.
ExportRows ==
  { [isNull |-> FALSE, keys |-> <<"Order ID", "Customer">>],
    [isNull |-> TRUE, keys |-> <<>>] }

ExportInputs ==
  {AbsentData} \cup { DataOf(rows) : rows \in UNION { [1..n -> ExportRows] : n \in 0..MaxExportRows } }

ExportFormats == {"csv", "xlsx"}

\* The page variables, at rest, with room for MaxExports calls of exportData.
InitExport ==
  /\ InitOn({[dbOrders |-> <<>>, dbCustomers |-> LoadedCustomers]}, MaxSoloFlows)
  /\ currentUser.role = "Admin"
  /\ exports = [e \in 1..MaxExports |-> IdleExport]

PageVars ==
  << dbOrders, dbCustomers, localStorage, orders, customers, users, currentUser,
     today, records, collections, statusFilter, typeFilter, selectedCollection, verificationNotes,
     filteredCollections, mounted, mountRefetch, flows, cacheRead >>

\* exportData(data, filename, format) is called (lines 7-36/41).
ExportData(e, data, format, libraryThrows) ==
  /\ exports[e].pc = "idle"
  /\ \A g \in 1..(e - 1) : exports[g].pc # "idle"
  /\ exports' = [exports EXCEPT ![e] = exportDataCall(data, "orders_" \o today, format, libraryThrows)]
  /\ UNCHANGED PageVars

\* writeBuffer() resolves: Blob, saveAs, console.log (lines 36-48).
WriteBufferResolves(e) ==
  /\ exports[e].pc = "awaitBuffer"
  /\ exports' = [exports EXCEPT
                   ![e].pc = "done",
                   ![e].saved = Append(@, FileOf(exports[e].data, exports[e].filename, exports[e].format)),
                   ![e].logs = Append(@, "Successfully exported")]
  /\ UNCHANGED PageVars

\* writeBuffer() rejects: console.error, alert (lines 49-52).
WriteBufferRejects(e) ==
  /\ exports[e].pc = "awaitBuffer"
  /\ exports' = [exports EXCEPT
                   ![e].pc = "done",
                   ![e].errors = Append(@, ErrorLine("writeBuffer")),
                   ![e].alerts = Append(@, ExportFailedNotice)]
  /\ UNCHANGED PageVars

NextExport ==
  \/ \E e \in DOMAIN exports, data \in ExportInputs, format \in ExportFormats, libraryThrows \in BOOLEAN :
       ExportData(e, data, format, libraryThrows)
  \/ \E e \in DOMAIN exports : WriteBufferResolves(e)
  \/ \E e \in DOMAIN exports : WriteBufferRejects(e)

\* Calls of exportData, which may overlap at the await of writeBuffer().
SpecExport == InitExport /\ [][NextExport]_vars

\* ===================================================================
\* Properties
\* ===================================================================
Flows == DOMAIN flows

\* The record a flow was invoked on (the selectedCollection of its closure).
SelOf(f) == flows[f].sel[1]

HasStatus(colls, id, st) == \E i \in 1..Len(colls) : colls[i].id = id /\ colls[i].status = st

\* The store row of an order, as a set (empty when there is none).
DbOrderRows(orderId) == {dbOrders[i] : i \in {j \in 1..Len(dbOrders) : dbOrders[j].id = orderId}}

DbCustomerRows(customerId) ==
  {dbCustomers[i] : i \in {j \in 1..Len(dbCustomers) : dbCustomers[j].id = customerId}}

BalanceOf(row, type) == IF type = "credit" THEN row.creditBalance ELSE row.chequeBalance

\* C1: every record of the obligation list whose id is in the cached
\* 'completedCollections' list, or whose order carries the completion marker
\* in its notes, has status complete.
C1_SignalledIdsAreComplete ==
  mounted =>
    \A i \in 1..Len(collections) :
      LET r == collections[i]
          oi == FindById(orders, r.orderId)
      IN (\/ Includes(ParseCache(localStorage), r.id)
          \/ (oi # 0 /\ Includes(orders[oi].notes, Marker)))
         => r.status = "complete"

\* C2: once a recognition flow has ended with the success notice (and no other
\* flow has been invoked), the store holds balance 0 for the order's balance
\* of the record's type, max(0, old - amount) for the customer's outstanding
\* balance, and the cached list holds the record's id.
C2_RecognitionPostcondition ==
  \A f \in Flows :
    (flows[f].notice = "success" /\ \A g \in Flows \ {f} : flows[g].pc = "idle") =>
      /\ \A row \in DbOrderRows(SelOf(f).orderId) : BalanceOf(row, SelOf(f).collectionType) = 0
      /\ \A row \in DbCustomerRows(SelOf(f).customerId) :
           row.outstandingBalance = newOutstandingBalance(LoadedCustomers[1], SelOf(f).amount)
      /\ Includes(ParseCache(localStorage), SelOf(f).id)

\* C4: a flow in which the orders update or the customers update returned an
\* error has ended at the failure notice, with no later step taken.
C4_StoreErrorIsFatal ==
  \A f \in Flows :
    (flows[f].orderError \/ flows[f].customerError) =>
      (flows[f].pc = "failed" /\ flows[f].notice = "failure")

\* C10: for a user who is neither Admin nor Manager no obligation list is
\* computed, the cached list is not read and no store update is issued.
C10_NoLogicForOtherRoles ==
  ~ isAdminManager =>
    /\ collections = <<>>
    /\ ~ cacheRead
    /\ \A f \in Flows : flows[f].pc = "idle"

\* C3: once a flow has run through its reload (and the derivation the reload
\* triggers), the obligation list holds no pending record with the id of the
\* record the flow recognized.
C3_NoPendingAfterReload ==
  \A f \in Flows :
    flows[f].pc = "done" => ~ HasStatus(collections, SelOf(f).id, "pending")

\* A flow is done and the list still holds other records.
C3_Witness ==
  \E f \in Flows :
    /\ flows[f].pc = "done"
    /\ collections # <<>>
    /\ ~ \E i \in 1..Len(collections) : collections[i].id = SelOf(f).id

\* C5 as stated: whatever the store updates returned, a flow past them has
\* flipped its record to complete and called the reload.
C5_FlipWhateverTheStoreReturned ==
  \A f \in Flows :
    flows[f].pc \in {"failed", "awaitReload", "done"} =>
      /\ flows[f].pc \in {"awaitReload", "done"}
      /\ ~ HasStatus(collections, SelOf(f).id, "pending")

\* C5 amended: when the orders update returned no error, the step that takes
\* the customers update's result (error or not) leaves the record complete in
\* the list and calls the reload; when the orders update returned an error
\* the flow ends with the list, the context values and the cache untouched.
C5_FlipWhenOrdersUpdateSucceeded ==
  [][ \A f \in Flows :
        /\ (flows[f].pc = "awaitOrder" /\ flows'[f].pc = "failed") =>
             /\ flows'[f].orderError
             /\ UNCHANGED << collections, orders, customers, localStorage, dbOrders, dbCustomers >>
        /\ (flows[f].pc = "awaitOrder" /\ flows'[f].pc # "awaitOrder" /\ ~ flows'[f].orderError) =>
             flows'[f].pc \in {"awaitCustomer", "awaitReload"}
        /\ (flows[f].pc = "awaitCustomer" /\ flows'[f] # flows[f]) =>
             flows'[f].pc = "awaitReload"
        /\ (flows[f].pc # "awaitReload" /\ flows'[f].pc = "awaitReload") =>
             /\ ~ HasStatus(collections', SelOf(f).id, "pending")
             /\ \A i \in 1..Len(collections) :
                  collections[i].id = SelOf(f).id => HasStatus(collections', SelOf(f).id, "complete")
    ]_vars

\* The customers update returned an error and the record was flipped all the same.
C5_Witness ==
  \E f \in Flows :
    /\ flows[f].pc = "awaitReload"
    /\ flows[f].customerError
    /\ HasStatus(collections, SelOf(f).id, "complete")

\* C6, for one step: a record that is complete in the obligation list is not
\* pending in the list that follows.
C6_CompleteNeverPending ==
  [][ \A i \in 1..Len(collections) :
        collections[i].status = "complete" =>
          ~ HasStatus(collections', collections[i].id, "pending") ]_vars

\* An order's customer and responsible user resolve (lines 60-62).
Resolves(order) ==
  /\ \E c \in Range(customers) : c.id = order.customerId
  /\ \/ \E u \in Range(users) : u.id = order.assignedUserId
     \/ \E u \in Range(users) : u.email = currentUser.email

RecordsWithId(id) == {i \in 1..Len(collections) : collections[i].id = id}

RecordsOfOrderId(orderId) == {i \in 1..Len(collections) : collections[i].orderId = orderId}

EmitsExactly(order, type, balance) ==
  LET hits == RecordsWithId(CollectionId(order.id, type))
  IN /\ (balance > 0) <=> (hits # {})
     /\ Cardinality(hits) <= 1
     /\ \A i \in hits :
          /\ collections[i].amount = balance
          /\ collections[i].collectionType = type
          /\ collections[i].orderId = order.id

\* C7: for every order of the context whose customer and user resolve, the
\* list holds a record "<id>-credit" with the credit balance as amount exactly
\* when that balance is positive, and likewise for cheque; an order with
\* credit 100, cheque 0 and no completion signal has exactly one record,
\* credit, 100, pending; an order whose customer does not resolve has none.
C7_EmissionPerOrder ==
  mounted =>
    \A k \in 1..Len(orders) :
      LET o == orders[k]
      IN /\ Resolves(o) =>
              /\ EmitsExactly(o, "credit", o.creditBalance)
              /\ EmitsExactly(o, "cheque", o.chequeBalance)
              /\ Cardinality(RecordsOfOrderId(o.id)) =
                   (IF o.creditBalance > 0 THEN 1 ELSE 0) + (IF o.chequeBalance > 0 THEN 1 ELSE 0)
         /\ (/\ Resolves(o)
             /\ o.creditBalance = 100 /\ o.chequeBalance = 0
             /\ ~ Includes(o.notes, Marker)
             /\ ~ Includes(ParseCache(localStorage), CollectionId(o.id, "credit"))) =>
              \A i \in RecordsOfOrderId(o.id) :
                /\ collections[i].collectionType = "credit"
                /\ collections[i].amount = 100
                /\ collections[i].status = "pending"
         /\ (~ \E c \in Range(customers) : c.id = o.customerId) => RecordsOfOrderId(o.id) = {}

\* An order without customer is followed by an order with credit 100 only,
\* which has its one pending record.
C7_Witness ==
  /\ mounted
  /\ Len(orders) = 2
  /\ ~ \E c \in Range(customers) : c.id = orders[1].customerId
  /\ orders[2].creditBalance = 100 /\ orders[2].chequeBalance = 0
  /\ Len(collections) = 1
  /\ collections[1].id = "o2-credit"
  /\ collections[1].status = "pending"

\* A step in which the derivation effect runs again on context values and a
\* cached list equal to those of the state before.
RederivesUnchanged ==
  /\ mounted
  /\ \/ mountRefetch /\ ~ mountRefetch'
     \/ \E f \in Flows : flows[f].pc = "awaitReload" /\ flows'[f].pc = "done"
  /\ UNCHANGED << orders, customers, users, currentUser, localStorage >>

\* What C8 compares of a list: ids, amounts and statuses, in order.
IdAmountStatus(seq) ==
  [i \in 1..Len(seq) |-> [id |-> seq[i].id, amount |-> seq[i].amount, status |-> seq[i].status]]

Matches(r) ==
  /\ statusFilter = "all" \/ r.status = statusFilter
  /\ typeFilter = "all" \/ r.collectionType = typeFilter

CountOf(colls, st, type) ==
  Cardinality({i \in 1..Len(colls) : colls[i].status = st /\ colls[i].collectionType = type})

\* C9: the filtered view holds exactly the records of the obligation list
\* that pass the status filter and the type filter, each once, ordered by
\* collectedAt descending; with status pending and type cheque on 3 credit
\* pending, 2 cheque pending and 1 cheque complete records it holds the 2
\* cheque pending records.
C9_FilteredView ==
  /\ \A r \in Range(collections) : Matches(r) <=> r \in Range(filteredCollections)
  /\ Range(filteredCollections) \subseteq Range(collections)
  /\ Len(filteredCollections) = Cardinality({i \in 1..Len(collections) : Matches(collections[i])})
  /\ \A i, j \in 1..Len(filteredCollections) :
       i < j => DateTime(filteredCollections[i].collectedAt) >= DateTime(filteredCollections[j].collectedAt)
  /\ (/\ statusFilter = "pending" /\ typeFilter = "cheque"
      /\ CountOf(collections, "pending", "credit") = 3
      /\ CountOf(collections, "pending", "cheque") = 2
      /\ CountOf(collections, "complete", "cheque") = 1
      /\ Len(collections) = 6) =>
       /\ Len(filteredCollections) = 2
       /\ \A i \in 1..2 : /\ filteredCollections[i].status = "pending"
                          /\ filteredCollections[i].collectionType = "cheque"

\* The example of C9, with records of different dates in the view.
C9_Witness ==
  /\ statusFilter = "pending" /\ typeFilter = "cheque"
  /\ CountOf(collections, "pending", "credit") = 3
  /\ CountOf(collections, "pending", "cheque") = 2
  /\ CountOf(collections, "complete", "cheque") = 1
  /\ Len(collections) = 6
  /\ Len(filteredCollections) = 2

\* C11: a call of exportData with an absent or empty record sequence, for
\* either format, hands no file to saveAs and raises the notice 'No data to
\* export' (and no other); a call on a non-empty input whose serialization
\* failed has raised exactly one notice, the failure notice, and handed no
\* file to saveAs.
C11_EmptyOrFailedExport ==
  \A e \in DOMAIN exports :
    LET call == exports[e]
    IN /\ (call.pc # "idle" /\ (~ call.data.present \/ call.data.rows = <<>>)) =>
            /\ call.pc = "done"
            /\ call.saved = <<>>
            /\ call.alerts = <<NoDataNotice>>
       /\ (call.pc # "idle" /\ call.data.present /\ call.data.rows # <<>> /\ call.errors # <<>>) =>
            /\ call.pc = "done"
            /\ call.saved = <<>>
            /\ call.alerts = <<ExportFailedNotice>>

\* One call on an empty array has returned, and another call, on rows, has
\* had its writeBuffer() rejected.
C11_Witness ==
  \E e, g \in DOMAIN exports :
    /\ exports[e].pc = "done" /\ exports[e].data = DataOf(<<>>) /\ exports[e].format = "csv"
    /\ exports[g].pc = "done" /\ exports[g].data.rows # <<>> /\ ~ exports[g].data.rows[1].isNull
    /\ exports[g].errors # <<>> /\ exports[g].alerts = <<ExportFailedNotice>>

\* The cached list holds no id twice.
CacheHasNoDuplicate(item) ==
  \A i, j \in 1..Len(ParseCache(item)) : i # j => ParseCache(item)[i] # ParseCache(item)[j]

\* The store row of the flow's order carries the flow's update.
OrdersUpdateApplied(rows, f) ==
  \A i \in 1..Len(rows) :
    rows[i].id = SelOf(f).orderId =>
      /\ BalanceOf(rows[i], SelOf(f).collectionType) = 0
      /\ rows[i].notes = UpdatedNotes(SelOf(f), currentUser, flows[f].notes)

\* The store row of the flow's order holds balance 0 for the record's type.
OrdersBalanceCleared(rows, f) ==
  \A i \in 1..Len(rows) :
    rows[i].id = SelOf(f).orderId => BalanceOf(rows[i], SelOf(f).collectionType) = 0

\* The customer of the flow's record resolves in the customers of its closure.
CustomerResolves(f) == FindById(flows[f].customers, SelOf(f).customerId) # 0

\* C12: a flow moves from one await to the next in the order orders update,
\* customers update (only when the customer resolves in the in-memory
\* customers), cache append with flip, reload: the store's customers change
\* only at the return of the customers update, awaited after the orders
\* update has been applied; the cached list and the obligation list change
\* only after the store updates have returned and before the reload returns;
\* the context values change only when the reload returns; and the cached
\* list never holds an id twice.
C12_EffectOrder ==
  /\ [] CacheHasNoDuplicate(localStorage)
  /\ [][ \A f \in Flows :
          flows'[f] # flows[f] =>
            \/ /\ flows[f].pc = "idle" /\ flows'[f].pc = "awaitOrder"
               /\ UNCHANGED << dbOrders, dbCustomers, localStorage, collections, orders, customers >>
            \/ /\ flows[f].pc = "awaitOrder" /\ flows'[f].pc = "failed"
               /\ UNCHANGED << dbOrders, dbCustomers, localStorage, collections, orders, customers >>
            \/ /\ flows[f].pc = "awaitOrder" /\ flows'[f].pc = "awaitCustomer"
               /\ CustomerResolves(f)
               /\ OrdersUpdateApplied(dbOrders', f)
               /\ UNCHANGED << dbCustomers, localStorage, collections, orders, customers >>
            \/ /\ flows[f].pc = "awaitOrder" /\ flows'[f].pc = "awaitReload"
               /\ ~ CustomerResolves(f)
               /\ OrdersUpdateApplied(dbOrders', f)
               /\ Includes(ParseCache(localStorage'), SelOf(f).id)
               /\ ~ HasStatus(collections', SelOf(f).id, "pending")
               /\ UNCHANGED << dbCustomers, orders, customers >>
            \/ /\ flows[f].pc = "awaitCustomer" /\ flows'[f].pc = "awaitReload"
               /\ OrdersBalanceCleared(dbOrders, f)
               /\ Includes(ParseCache(localStorage'), SelOf(f).id)
               /\ Len(ParseCache(localStorage')) =
                    Len(ParseCache(localStorage))
                      + (IF Includes(ParseCache(localStorage), SelOf(f).id) THEN 0 ELSE 1)
               /\ ~ HasStatus(collections', SelOf(f).id, "pending")
               /\ UNCHANGED << dbOrders, orders, customers >>
            \/ /\ flows[f].pc = "awaitReload" /\ flows'[f].pc = "done"
               /\ orders' = dbOrders /\ customers' = dbCustomers
               /\ UNCHANGED << dbOrders, dbCustomers, localStorage >> ]_vars

\* A flow ran to its end on a record whose id an earlier session had left in
\* the cached list, and the list still holds the id once.
C12_Witness ==
  \E f \in Flows :
    /\ flows[f].pc = "done"
    /\ CustomerResolves(f)
    /\ SelOf(f).id = "o1-credit"
    /\ currentUser.name = "Adi"
    /\ ParseCache(localStorage) = <<"o1-credit">>

\* Math.max(0, balance - a1 - a2)
BalanceAfterBoth(balance, a1, a2) == IF balance - a1 - a2 > 0 THEN balance - a1 - a2 ELSE 0

\* C13: after the recognitions of two distinct obligations of one customer
\* have both ended with the success notice, neither store update having
\* returned an error, the customer's outstanding balance in the store is
\* max(0, initial balance - A1 - A2).
C13_NoLostDecrement ==
  \A f, g \in Flows :
    (/\ f # g
     /\ flows[f].notice = "success" /\ flows[g].notice = "success"
     /\ ~ flows[f].customerError /\ ~ flows[g].customerError
     /\ SelOf(f).id # SelOf(g).id
     /\ SelOf(f).customerId = SelOf(g).customerId) =>
      \A row \in DbCustomerRows(SelOf(f).customerId) :
        row.outstandingBalance =
          BalanceAfterBoth(LoadedCustomers[1].outstandingBalance, SelOf(f).amount, SelOf(g).amount)

\* The flow awaits a store call or the reload.
InFlight(f) == flows[f].pc \in {"awaitOrder", "awaitCustomer", "awaitReload"}

\* C14: no two invocations of handleRecognizeCollection for the same record
\* are in flight together, and the step that issues an orders update (the
\* invocation running up to its first await) is taken for a record that is
\* pending in the obligation list.
C14_OneFlowPerObligation ==
  /\ [] (\A f, g \in Flows : (f # g /\ InFlight(f) /\ InFlight(g)) => SelOf(f).id # SelOf(g).id)
  /\ [][ \A f \in Flows :
          (flows[f].pc = "idle" /\ flows'[f].pc = "awaitOrder") =>
            HasStatus(collections, flows'[f].sel[1].id, "pending") ]_vars

\* C15: computing the filtered view leaves the obligation list unchanged in
\* content and element order, whatever the two filters: with no recognition
\* under way, the list held in state is the array the derivation effect
\* handed to setCollections.
C15_ViewLeavesListUnchanged == collections = records

====
